---- MODULE Spec2Model ----
(***************************************************************************)
(* GooseBot PR review pipeline (scripts/goosebot_review.py and the local   *)
(* tester .github/scripts/test_goosebot.py).                               *)
(*                                                                         *)
(* Strings that are matched character by character (file names, glob       *)
(* patterns, comma-separated pattern lists) are sequences of one-character *)
(* strings.  Texts that are only searched for the word "error" or counted  *)
(* in words (prompts, model responses, comments) are sequences of words.   *)
(* Token estimates are floats in the source (word count * 1.3); they are   *)
(* kept exactly, in tenths of a token.                                     *)
(***************************************************************************)
EXTENDS Integers, Sequences, FiniteSets, TLC

\* ------------------------------------------------------------------ bounds
MaxFiles == 2       \* changed files of the pull request (Spec)
MaxSlack == 2       \* TOKEN_BUDGET values up to max_tokens + MaxSlack (Spec)
MaxBatch == 3       \* files handed to filter_relevant_files (FilterSpec)
MaxLimit == 3       \* budget_limit values 0..MaxLimit (BudgetSpec)
MaxTok == 2         \* prompt/completion tokens per record_usage (BudgetSpec)
MaxEst == 35        \* estimates in tenths of a token (BudgetSpec)
MaxUsage == 5       \* cap on current_usage (BudgetSpec)
MaxCalls == 2       \* calls of call_anthropic_api on one tracker (CallsSpec)

\* ------------------------------------------------------- program constants
DEFAULT_BUDGET == 100000
MAX_TOKENS == 4000

VARIABLES
    mode,            \* "live" (goosebot_review.py) or "test" (test_goosebot.py)
    post_flag,       \* args.post of the test entry point
    memory_bank,     \* names of the files that exist under memory-bank/
    env,             \* PR_REVIEW_WHITELIST and PR_REVIEW_BLACKLIST as read
    pr_details,      \* title and description from get_pr_details
    prompt_template, \* the template text load_prompt_template returned
    choice,          \* the answer typed at the test entry point's question
    pc,              \* stage of the run about to execute
    trace,           \* stages executed so far, in order
    token_tracker,   \* TokenUsageTracker: [budget_limit, current_usage]
    file_filter,     \* FileFilterConfig: [whitelist_patterns, blacklist_patterns]
    files_changed,   \* pr_details['files_changed']
    relevant_files,  \* result of filter_relevant_files
    project_context, \* result of gather_project_context
    prompt,          \* the rendered prompt (sequence of words)
    api_response,    \* the provider's reply to the pending call
    response,        \* dict returned by call_anthropic_api
    tracker_call,    \* the last TokenUsageTracker method call and its result
    filter_call,     \* the last should_review_file call and its result
    admitted,        \* outcome of the budget check: "none", "yes", "no"
    api_calls,       \* client.messages.create calls issued
    record_calls,    \* record_usage calls made
    github_calls,    \* requests sent to the source-control collaborator
    post_attempts,   \* texts handed to pr.create_issue_comment
    comments,        \* texts that create_issue_comment accepted
    console,         \* result texts logged to the console
    swallowed,       \* faults that were logged and then ignored
    abort_kind,      \* "none", "sys.exit", "caught" (main's except) or "uncaught"
    exit_code        \* "running", or the exit status "0" or "1"

vars == <<mode, post_flag, memory_bank, env, pr_details, prompt_template, choice, pc, trace, token_tracker, file_filter, files_changed,
          relevant_files, project_context, prompt, api_response, response,
          tracker_call, filter_call, admitted, api_calls, record_calls,
          github_calls, post_attempts, comments, console, swallowed, abort_kind,
          exit_code>>

\* groups of variables an action leaves alone
configVars == <<mode, post_flag, memory_bank>>
filterVars == <<env, file_filter, files_changed, relevant_files, filter_call>>
promptVars == <<pr_details, prompt_template, project_context, prompt>>
modelVars  == <<api_response, response, admitted, api_calls, record_calls>>
githubVars == <<github_calls, post_attempts, comments, swallowed, choice>>
exitVars   == <<abort_kind, exit_code>>

\* -------------------------------------------------------------- fnmatch
\* Index of the "]" closing the character class opened at pat[j] = "[",
\* 0 when the class is not closed (fnmatch.translate then takes "[" literally).
RECURSIVE ScanClass(_, _)
ScanClass(pat, k) ==
    IF k > Len(pat) THEN 0
    ELSE IF pat[k] = "]" THEN k
    ELSE ScanClass(pat, k + 1)

ClassEnd(pat, j) ==
    LET j1 == IF j + 1 <= Len(pat) /\ pat[j + 1] = "!" THEN j + 2 ELSE j + 1
        j2 == IF j1 <= Len(pat) /\ pat[j1] = "]" THEN j1 + 1 ELSE j1
    IN  ScanClass(pat, j2)

\* c is accepted by the class pat[j..k] ("[" ... "]"); a leading "!" negates.
\* The alphabet of the model has no "-", so a class is a plain set of characters.
InClass(c, pat, j, k) ==
    LET neg   == pat[j + 1] = "!"
        first == IF neg THEN j + 2 ELSE j + 1
        hit   == \E m \in first..(k - 1) : pat[m] = c
    IN  IF neg THEN ~hit ELSE hit

RECURSIVE GlobMatch(_, _, _, _)
GlobMatch(name, i, pat, j) ==
    IF j > Len(pat) THEN i > Len(name)
    ELSE IF pat[j] = "*" THEN
        \/ GlobMatch(name, i, pat, j + 1)
        \/ i <= Len(name) /\ GlobMatch(name, i + 1, pat, j)
    ELSE IF pat[j] = "?" THEN
        i <= Len(name) /\ GlobMatch(name, i + 1, pat, j + 1)
    ELSE IF pat[j] = "[" /\ ClassEnd(pat, j) # 0 THEN
        /\ i <= Len(name)
        /\ InClass(name[i], pat, j, ClassEnd(pat, j))
        /\ GlobMatch(name, i + 1, pat, ClassEnd(pat, j) + 1)
    ELSE
        i <= Len(name) /\ name[i] = pat[j] /\ GlobMatch(name, i + 1, pat, j + 1)

\* fnmatch.fnmatch(filename, pattern) on a POSIX host (normcase is the identity)
fnmatch(filename, pattern) == GlobMatch(filename, 1, pattern, 1)

\* ------------------------------------------------------ FileFilterConfig
\* str.split(","): the pieces between commas, empty pieces kept, nothing trimmed
RECURSIVE split(_, _)
split(s, sep) ==
    IF \A i \in 1..Len(s) : s[i] # sep THEN <<s>>
    ELSE LET i == CHOOSE k \in 1..Len(s) :
                      s[k] = sep /\ \A m \in 1..(k - 1) : s[m] # sep
         IN  <<SubSeq(s, 1, i - 1)>> \o split(SubSeq(s, i + 1, Len(s)), sep)

Star == <<"*">>

FileFilterConfig(whitelist, blacklist) ==
    [whitelist_patterns |-> IF whitelist # <<>> THEN split(whitelist, ",") ELSE <<Star>>,
     blacklist_patterns |-> IF blacklist # <<>> THEN split(blacklist, ",") ELSE <<>>]

MatchesAny(filename, patterns) ==
    \E i \in 1..Len(patterns) : fnmatch(filename, patterns[i])

\* Mutants of should_review_file: whitelist consulted first; files matching no
\* list let through.
should_review_file_whitelist_first(self, filename) ==
    IF MatchesAny(filename, self.whitelist_patterns) THEN TRUE
    ELSE IF MatchesAny(filename, self.blacklist_patterns) THEN FALSE
    ELSE FALSE

should_review_file_default_allow(self, filename) ==
    IF MatchesAny(filename, self.blacklist_patterns) THEN FALSE
    ELSE IF MatchesAny(filename, self.whitelist_patterns) THEN TRUE
    ELSE TRUE

should_review_file(self, filename) ==
    IF MatchesAny(filename, self.blacklist_patterns) THEN FALSE
    ELSE IF MatchesAny(filename, self.whitelist_patterns) THEN TRUE
    ELSE FALSE

\* Mutant of filter_relevant_files: relevant files are prepended.
RECURSIVE filter_relevant_files_reversed(_, _)
filter_relevant_files_reversed(files, flt) ==
    IF files = <<>> THEN <<>>
    ELSE IF should_review_file(flt, Head(files).filename)
         THEN filter_relevant_files_reversed(Tail(files), flt) \o <<Head(files)>>
         ELSE filter_relevant_files_reversed(Tail(files), flt)

RECURSIVE filter_relevant_files(_, _)
filter_relevant_files(files, flt) ==
    IF files = <<>> THEN <<>>
    ELSE IF should_review_file(flt, Head(files).filename)
         THEN <<Head(files)>> \o filter_relevant_files(Tail(files), flt)
         ELSE filter_relevant_files(Tail(files), flt)

\* ----------------------------------------------------- TokenUsageTracker
TokenUsageTracker(limit) == [budget_limit |-> limit, current_usage |-> 0]

\* Mutants of can_process: strict comparison; the usage so far left out.
can_process_strict(self, estimated_tenths) ==
    self.current_usage * 10 + estimated_tenths < self.budget_limit * 10

can_process_ignores_usage(self, estimated_tenths) ==
    estimated_tenths <= self.budget_limit * 10

\* estimated_tenths: the float estimate, in tenths of a token
can_process(self, estimated_tenths) ==
    self.current_usage * 10 + estimated_tenths <= self.budget_limit * 10

\* Mutant of record_usage: the completion tokens are left out.
record_usage_prompt_only(self, prompt_tokens, completion_tokens) ==
    [self EXCEPT !.current_usage = @ + prompt_tokens]

\* The tracker after record_usage; the addition happens before the logging.
record_usage(self, prompt_tokens, completion_tokens) ==
    [self EXCEPT !.current_usage = @ + (prompt_tokens + completion_tokens)]

\* record_usage's outcome: it returns the new total, unless the percentage it
\* logs divides by a zero budget_limit (raised after current_usage was updated).
record_usage_ret(self, prompt_tokens, completion_tokens) ==
    IF self.budget_limit = 0 THEN [raised |-> TRUE, value |-> 0]
    ELSE [raised |-> FALSE,
          value |-> record_usage(self, prompt_tokens, completion_tokens).current_usage]

\* ------------------------------------------------------------ input data
\* File names and glob patterns, character by character.
A_PY       == <<"a", ".", "p", "y">>
TESTS_B_PY == <<"t", "e", "s", "t", "s", "/", "b", ".", "p", "y">>
C_MD       == <<"c", ".", "m", "d">>
T_RS       == <<"t", ".", "r", "s">>

P_PY       == <<"*", ".", "p", "y">>
P_TESTS    == <<"t", "e", "s", "t", "s", "/", "*">>
P_ONE_MD   == <<"?", ".", "m", "d">>
P_NOT_T    == <<"[", "!", "t", "]", "*">>
P_AC       == <<"[", "a", "c", "]", ".", "*">>

Paths == {A_PY, TESTS_B_PY, C_MD, T_RS}

\* one entry of pr.get_files(), as get_pr_details stores it
FileChange(path) ==
    [filename |-> path, status |-> "modified", additions |-> 1, deletions |-> 0,
     changes |-> 1]

RECURSIVE SeqsUpTo(_, _)
SeqsUpTo(S, n) ==
    IF n = 0 THEN {<<>>}
    ELSE LET shorter == SeqsUpTo(S, n - 1)
         IN  shorter \cup {Append(q, x) : q \in shorter, x \in S}

Files == {FileChange(p) : p \in Paths}

\* ------------------------------------------------------ state at creation
\* Everything but the tracker, the filter configuration and the file list.
NoTrackerCall ==
    [op |-> "none", a |-> 0, b |-> 0, before |-> TokenUsageTracker(0),
     ret |-> FALSE, raised |-> FALSE]
NoFilterCall  == [op |-> "none", filename |-> <<>>, ret |-> FALSE]
NoReply       == [outcome |-> "none", text |-> <<>>, input_tokens |-> 0, output_tokens |-> 0]
NoResponse    == [content |-> <<>>, prompt_tokens |-> 0, completion_tokens |-> 0]
UNSET         == <<"unset">>
NoEnv         == [whitelist |-> UNSET, blacklist |-> UNSET]
NoDetails     == [title |-> <<>>, description |-> <<>>]
UNASKED       == "unasked"

Blank ==
    /\ trace = <<>>
    /\ env = NoEnv
    /\ pr_details = NoDetails
    /\ prompt_template = <<>>
    /\ choice = UNASKED
    /\ relevant_files = <<>>
    /\ project_context = <<>>
    /\ prompt = <<>>
    /\ api_response = NoReply
    /\ response = NoResponse
    /\ tracker_call = NoTrackerCall
    /\ filter_call = NoFilterCall
    /\ admitted = "none"
    /\ api_calls = 0
    /\ record_calls = 0
    /\ github_calls = 0
    /\ post_attempts = <<>>
    /\ comments = <<>>
    /\ console = <<>>
    /\ swallowed = {}
    /\ abort_kind = "none"
    /\ exit_code = "running"

\* ------------------------------------------------- FileFilter on its own
\* should_review_file and filter_relevant_files applied to drawn inputs.
WhitelistLists == {<<>>, <<Star>>, <<P_PY>>, <<P_PY, P_ONE_MD>>, <<P_NOT_T>>, <<P_AC>>}
BlacklistLists == {<<>>, <<P_TESTS>>, <<P_PY>>, <<P_ONE_MD, P_TESTS>>}

FilterInit ==
    /\ Blank /\ mode = "filter" /\ post_flag = FALSE /\ pc = "filter"
    /\ memory_bank = {}
    /\ token_tracker = TokenUsageTracker(0)
    /\ \E w \in WhitelistLists, b \in BlacklistLists :
           file_filter = [whitelist_patterns |-> w, blacklist_patterns |-> b]
    /\ files_changed \in SeqsUpTo(Files, MaxBatch)

ApplyShouldReview ==
    /\ pc = "filter"
    /\ \E p \in Paths :
           filter_call' = [op |-> "should_review_file", filename |-> p,
                           ret |-> should_review_file(file_filter, p)]
    /\ UNCHANGED <<configVars, pc, trace, token_tracker, tracker_call, env, file_filter,
                   files_changed, relevant_files, promptVars, modelVars, githubVars,
                   console, exitVars>>

ApplyFilter ==
    /\ pc = "filter"
    /\ relevant_files' = filter_relevant_files(files_changed, file_filter)
    /\ filter_call' = [op |-> "filter_relevant_files", filename |-> <<>>, ret |-> TRUE]
    /\ UNCHANGED <<configVars, pc, trace, token_tracker, tracker_call, env, file_filter,
                   files_changed, promptVars, modelVars, githubVars, console, exitVars>>

FilterNext == ApplyShouldReview \/ ApplyFilter

FilterSpec == FilterInit /\ [][FilterNext]_vars

\* ---------------------------------------------- TokenUsageTracker on its own
\* A tracker created with a drawn limit, then any sequence of method calls.
BudgetInit ==
    /\ Blank /\ mode = "budget" /\ post_flag = FALSE /\ pc = "budget"
    /\ memory_bank = {}
    /\ token_tracker \in {TokenUsageTracker(l) : l \in 0..MaxLimit}
    /\ file_filter = FileFilterConfig(<<>>, <<>>)
    /\ files_changed = <<>>

CallCanProcess ==
    /\ pc = "budget"
    /\ \E e \in 0..MaxEst :
           tracker_call' = [op |-> "can_process", a |-> e, b |-> 0,
                            before |-> token_tracker,
                            ret |-> can_process(token_tracker, e), raised |-> FALSE]
    /\ UNCHANGED <<configVars, pc, trace, token_tracker, filterVars, promptVars,
                   modelVars, githubVars, console, exitVars>>

CallRecordUsage ==
    /\ pc = "budget"
    /\ \E p \in 0..MaxTok, c \in 0..MaxTok :
           /\ token_tracker.current_usage + p + c <= MaxUsage
           /\ token_tracker' = record_usage(token_tracker, p, c)
           /\ tracker_call' = [op |-> "record_usage", a |-> p, b |-> c,
                               before |-> token_tracker,
                               ret |-> record_usage_ret(token_tracker, p, c).value,
                               raised |-> record_usage_ret(token_tracker, p, c).raised]
    /\ UNCHANGED <<configVars, pc, trace, filterVars, promptVars, modelVars,
                   githubVars, console, exitVars>>

BudgetNext == CallCanProcess \/ CallRecordUsage

BudgetSpec == BudgetInit /\ [][BudgetNext]_vars

\* ================================================================ the run
\* ------------------------------------------------------------ environment
EnvGet(value, default) == IF value = UNSET THEN default ELSE value

LIVE_WHITELIST_DEFAULT == Star
LIVE_BLACKLIST_DEFAULT == <<>>
TEST_WHITELIST_DEFAULT ==
    <<"*", ".", "r", "s", ",", "*", ".", "m", "d", ",", "*", ".", "p", "y",
      ",", "*", ".", "t", "o", "m", "l", ",", "*", ".", "y", "m", "l", ",",
      "*", ".", "y", "a", "m", "l">>
TEST_BLACKLIST_DEFAULT ==
    <<"t", "e", "s", "t", "s", "/", "*", ",", "b", "e", "n", "c", "h", "e",
      "s", "/", "*", ",", "t", "a", "r", "g", "e", "t", "/", "*">>

WhitelistDefault(m) == IF m = "live" THEN LIVE_WHITELIST_DEFAULT ELSE TEST_WHITELIST_DEFAULT
BlacklistDefault(m) == IF m = "live" THEN LIVE_BLACKLIST_DEFAULT ELSE TEST_BLACKLIST_DEFAULT

\* values the environment may hold
W_PY_MD == <<"*", ".", "p", "y", ",", " ", "*", ".", "m", "d">>
WhitelistEnv == {UNSET, <<>>, P_PY, W_PY_MD}
BlacklistEnv == {UNSET, P_TESTS}
\* the memory-bank directories and the pull request of a run
DocSets == {{}, {"projectbrief.md"}}
PR_TITLE == <<"Fix">>
PR_DESCRIPTION == <<>>
BudgetEnv == {DEFAULT_BUDGET} \cup ((MAX_TOKENS - 1)..(MAX_TOKENS + MaxSlack))

\* ------------------------------------------------------------------ texts
\* A text is a sequence of words; NL stands for a line break.
NL == "\n"

RECURSIVE WordCount(_)
WordCount(text) ==
    IF text = <<>> THEN 0
    ELSE (IF Head(text) = NL THEN 0 ELSE 1) + WordCount(Tail(text))

\* str.lower() on the words of the model that hold capitals
Lower(w) ==
    CASE w = "Error:" -> "error:"
      [] w = "Error" -> "error"
      [] w = "YES" -> "yes"
      [] w = "Y" -> "y"
      [] OTHER -> w

\* "error" in content.lower()
ContainsError(content) ==
    \E i \in 1..Len(content) : Lower(content[i]) \in {"error", "error:", "errors"}

EMPTY_NOTICE ==
    <<"##", "GooseBot", "PR", "Review", NL, NL, "No", "relevant", "files", "found",
      "to", "review", "based", "on", "current", "filter", "settings.">>
NO_FILES_WARNING == <<"No", "relevant", "files", "found", "to", "review">>
ERROR_HEADING == <<"##", "GooseBot", "Error", NL, NL>>
BUDGET_ERROR ==
    <<"Error:", "Token", "budget", "exceeded.", "Unable", "to", "complete", "review.">>
API_ERROR ==
    <<"Error:", "Failed", "to", "get", "response", "from", "Anthropic", "API:", "e">>

BudgetErrorResult ==
    [content |-> BUDGET_ERROR, prompt_tokens |-> 0, completion_tokens |-> 0]
ApiErrorResult ==
    [content |-> API_ERROR, prompt_tokens |-> 0, completion_tokens |-> 0]

\* ------------------------------------------------------------ run: start
RunInit ==
    /\ Blank
    /\ mode \in {"live", "test"}
    /\ post_flag \in (IF mode = "test" THEN BOOLEAN ELSE {FALSE})
    /\ memory_bank \in DocSets
    /\ pc = "Start"
    /\ token_tracker = TokenUsageTracker(DEFAULT_BUDGET)
    /\ file_filter = FileFilterConfig(<<>>, <<>>)
    /\ files_changed = <<>>

Abort(kind) ==
    /\ abort_kind' = kind
    /\ exit_code' = "1"
    /\ pc' = "End"

\* An exception escaping a stage: main's except clause in the live entry point,
\* nothing in the test entry point.
Fault == Abort(IF mode = "live" THEN "caught" ELSE "uncaught")

\* Tracker and filter from the environment, then (test entry point) the PR
\* identifier and the GITHUB_TOKEN check.
Start ==
    /\ pc = "Start"
    /\ trace' = Append(trace, "Start")
    /\ \E budget_is_int \in BOOLEAN, budget \in BudgetEnv, w \in WhitelistEnv,
          b \in BlacklistEnv, pr_ok \in BOOLEAN, github_token \in BOOLEAN :
           IF ~budget_is_int
           THEN \* int() raises ValueError outside any try block
                Abort("uncaught") /\ UNCHANGED <<token_tracker, env, file_filter>>
           ELSE /\ token_tracker' = TokenUsageTracker(budget)
                /\ env' = [whitelist |-> w, blacklist |-> b]
                /\ file_filter' = FileFilterConfig(EnvGet(w, WhitelistDefault(mode)),
                                                   EnvGet(b, BlacklistDefault(mode)))
                /\ IF mode = "test" /\ ~pr_ok THEN Abort("sys.exit")
                   ELSE IF ~github_token THEN Abort("sys.exit")
                   ELSE pc' = "FetchPR" /\ UNCHANGED exitVars
    /\ UNCHANGED <<configVars, tracker_call, files_changed, relevant_files,
                   filter_call, promptVars, modelVars, githubVars, console>>

\* get_repo, get_pull_request, get_pr_details
FetchPR ==
    /\ pc = "FetchPR"
    /\ trace' = Append(trace, "FetchPR")
    /\ \E outcome \in {"ok", "repo_fault", "pull_fault", "files_fault"},
          fs \in SeqsUpTo({FileChange(p) : p \in {A_PY, TESTS_B_PY, C_MD}}, MaxFiles) :
           \/ /\ outcome = "repo_fault"
              /\ github_calls' = github_calls + 1
              /\ Fault
              /\ UNCHANGED <<pr_details, files_changed, swallowed>>
           \/ /\ outcome = "pull_fault"
              /\ github_calls' = github_calls + 2
              /\ Abort("sys.exit")
              /\ UNCHANGED <<pr_details, files_changed, swallowed>>
           \/ /\ outcome = "files_fault"
              /\ github_calls' = github_calls + 3
              /\ pr_details' = [title |-> PR_TITLE, description |-> PR_DESCRIPTION]
              /\ files_changed' = fs
              /\ swallowed' = swallowed \cup {"get_files"}
              /\ pc' = "FilterFiles"
              /\ UNCHANGED exitVars
           \/ /\ outcome = "ok"
              /\ github_calls' = github_calls + 3
              /\ pr_details' = [title |-> PR_TITLE, description |-> PR_DESCRIPTION]
              /\ files_changed' = fs
              /\ pc' = "FilterFiles"
              /\ UNCHANGED <<swallowed, exitVars>>
    /\ UNCHANGED <<configVars, token_tracker, tracker_call, env, file_filter,
                   relevant_files, filter_call, prompt_template, project_context,
                   prompt, modelVars, post_attempts, comments, choice, console>>

\* Mutant of PostComment: a rejected comment is sent a second time.
PostComment_resend(text) ==
    \E posted \in BOOLEAN :
        IF posted
        THEN /\ post_attempts' = Append(post_attempts, text)
             /\ github_calls' = github_calls + 1
             /\ comments' = Append(comments, text)
             /\ UNCHANGED swallowed
        ELSE /\ post_attempts' = Append(Append(post_attempts, text), text)
             /\ github_calls' = github_calls + 2
             /\ swallowed' = swallowed \cup {"post_comment"}
             /\ UNCHANGED comments

\* pr.create_issue_comment inside post_pr_comment: a failure is logged only
PostComment(text) ==
    /\ post_attempts' = Append(post_attempts, text)
    /\ github_calls' = github_calls + 1
    /\ \E posted \in BOOLEAN :
           IF posted
           THEN comments' = Append(comments, text) /\ UNCHANGED swallowed
           ELSE swallowed' = swallowed \cup {"post_comment"} /\ UNCHANGED comments

FilterFiles ==
    /\ pc = "FilterFiles"
    /\ trace' = Append(trace, "FilterFiles")
    /\ relevant_files' = filter_relevant_files(files_changed, file_filter)
    /\ IF relevant_files' # <<>>
       THEN pc' = "AssembleContext" /\ UNCHANGED <<console, exitVars>>
       ELSE /\ console' = Append(console, NO_FILES_WARNING)
            /\ IF mode = "live"
               THEN pc' = "PostEmptyNotice" /\ UNCHANGED exitVars
               ELSE pc' = "End" /\ exit_code' = "0" /\ UNCHANGED abort_kind
    /\ UNCHANGED <<configVars, token_tracker, tracker_call, env, file_filter,
                   files_changed, filter_call, promptVars, modelVars, githubVars>>

\* Mutant of PostEmptyNotice: the return after the notice is missing.
PostEmptyNotice_no_return ==
    /\ pc = "PostEmptyNotice"
    /\ trace' = Append(trace, "PostEmptyNotice")
    /\ PostComment(EMPTY_NOTICE)
    /\ pc' = "AssembleContext"
    /\ UNCHANGED <<configVars, token_tracker, tracker_call, filterVars, promptVars,
                   modelVars, choice, console, exitVars>>

PostEmptyNotice ==
    /\ pc = "PostEmptyNotice"
    /\ trace' = Append(trace, "PostEmptyNotice")
    /\ PostComment(EMPTY_NOTICE)
    /\ pc' = "End"
    /\ exit_code' = "0"
    /\ UNCHANGED <<configVars, token_tracker, tracker_call, filterVars, promptVars,
                   modelVars, choice, console, abort_kind>>

\* --------------------------------------------------- context and prompt
context_files ==
    <<"projectbrief.md", "productContext.md", "systemPatterns.md",
      "techContext.md", "activeContext.md", "progress.md">>

\* what a memory-bank document holds
DocContent(filename) == <<"notes", "of", filename>>

\* Mutant of GatherFrom: the loop stops at the first missing document.
RECURSIVE GatherFrom_stop_at_missing(_, _)
GatherFrom_stop_at_missing(names, existing) ==
    IF names = <<>> \/ Head(names) \notin existing THEN <<>>
    ELSE <<"##", Head(names), NL>> \o DocContent(Head(names)) \o <<NL, NL>>
         \o GatherFrom_stop_at_missing(Tail(names), existing)

\* gather_project_context with the documents of `existing` present
RECURSIVE GatherFrom(_, _)
GatherFrom(names, existing) ==
    IF names = <<>> THEN <<>>
    ELSE (IF Head(names) \in existing
          THEN <<"##", Head(names), NL>> \o DocContent(Head(names)) \o <<NL, NL>>
          ELSE <<>>)
         \o GatherFrom(Tail(names), existing)

gather_project_context(existing) == GatherFrom(context_files, existing)

PathWord(path) ==
    CASE path = A_PY -> "a.py"
      [] path = TESTS_B_PY -> "tests/b.py"
      [] path = C_MD -> "c.md"
      [] OTHER -> "t.rs"

RECURSIVE format_files_changed_summary(_)
format_files_changed_summary(files) ==
    IF files = <<>> THEN <<>>
    ELSE <<"-", PathWord(Head(files).filename), "(modified,", "+1,", "-0)", NL>>
         \o format_files_changed_summary(Tail(files))

\* A template is a sequence of literal words and {placeholders}.
Lit(w) == [field |-> FALSE, text |-> w]
Field(name) == [field |-> TRUE, text |-> name]

T_EMPTY == <<>>
T_TITLE == <<Field("pr_title")>>
T_FULL ==
    <<Lit("Review"), Field("project_context"), Field("pr_title"),
      Field("pr_description"), Field("files_changed")>>
T_UNKNOWN == <<Lit("Review"), Field("author")>>
Templates == {T_EMPTY, T_TITLE, T_FULL, T_UNKNOWN}

\* the keyword arguments of prompt_template.format
FormatArgs(ctx, summary) ==
    [project_context |-> ctx, pr_title |-> pr_details.title,
     pr_description |-> pr_details.description, files_changed |-> summary]

\* str.format raises KeyError on a placeholder that is no keyword argument
FormatRaises(template, args) ==
    \E i \in 1..Len(template) : template[i].field /\ template[i].text \notin DOMAIN args

\* Mutant of Format: the pr_description field is replaced by nothing.
RECURSIVE Format_drops_description(_, _)
Format_drops_description(template, args) ==
    IF template = <<>> THEN <<>>
    ELSE (IF Head(template).field
          THEN (IF Head(template).text = "pr_description" THEN <<>>
                ELSE args[Head(template).text])
          ELSE <<Head(template).text>>)
         \o Format_drops_description(Tail(template), args)

RECURSIVE Format(_, _)
Format(template, args) ==
    IF template = <<>> THEN <<>>
    ELSE (IF Head(template).field THEN args[Head(template).text]
          ELSE <<Head(template).text>>)
         \o Format(Tail(template), args)

AssembleContext ==
    /\ pc = "AssembleContext"
    /\ trace' = Append(trace, "AssembleContext")
    /\ \E readable \in BOOLEAN :
           IF readable
           THEN /\ project_context' = gather_project_context(memory_bank)
                /\ pc' = "BuildPrompt"
                /\ UNCHANGED exitVars
           ELSE Fault /\ UNCHANGED project_context
    /\ UNCHANGED <<configVars, token_tracker, tracker_call, filterVars, pr_details,
                   prompt_template, prompt, modelVars, githubVars, console>>

\* load_prompt_template, then prompt_template.format
BuildPrompt ==
    /\ pc = "BuildPrompt"
    /\ trace' = Append(trace, "BuildPrompt")
    /\ \E found \in BOOLEAN, template \in Templates :
           LET args == FormatArgs(project_context,
                                  format_files_changed_summary(relevant_files))
           IN  IF ~found
               THEN Abort("sys.exit") /\ UNCHANGED <<prompt_template, prompt>>
               ELSE /\ prompt_template' = template
                    /\ IF FormatRaises(template, args) THEN Fault /\ UNCHANGED prompt
                       ELSE /\ prompt' = Format(template, args)
                            /\ pc' = "CheckBudget"
                            /\ UNCHANGED exitVars
    /\ UNCHANGED <<configVars, token_tracker, tracker_call, filterVars, pr_details,
                   project_context, modelVars, githubVars, console>>

\* ----------------------------------------------------- call_anthropic_api
\* len(prompt.split()) * 1.3, in tenths of a token
EstimatedTokens(text) == WordCount(text) * 13

\* Mutant of CheckBudget: a rejected call is logged and issued all the same.
CheckBudget_no_return ==
    /\ pc = "CheckBudget"
    /\ trace' = Append(trace, "CheckBudget")
    /\ \E api_key \in BOOLEAN :
           LET pending == EstimatedTokens(prompt) + MAX_TOKENS * 10
               ok == can_process(token_tracker, pending)
           IN  IF ~api_key
               THEN Abort("sys.exit") /\ UNCHANGED <<tracker_call, response, admitted>>
               ELSE /\ tracker_call' = [op |-> "can_process", a |-> pending, b |-> 0,
                                        before |-> token_tracker, ret |-> ok,
                                        raised |-> FALSE]
                    /\ admitted' = IF ok THEN "yes" ELSE "no"
                    /\ response' = response
                    /\ pc' = "CallModel"
                    /\ UNCHANGED exitVars
    /\ UNCHANGED <<configVars, token_tracker, filterVars, promptVars, api_response,
                   api_calls, record_calls, githubVars, console>>

\* call_anthropic_api up to the budget check
CheckBudget ==
    /\ pc = "CheckBudget"
    /\ trace' = Append(trace, "CheckBudget")
    /\ \E api_key \in BOOLEAN :
           LET pending == EstimatedTokens(prompt) + MAX_TOKENS * 10
               ok == can_process(token_tracker, pending)
           IN  IF ~api_key
               THEN Abort("sys.exit") /\ UNCHANGED <<tracker_call, response, admitted>>
               ELSE /\ tracker_call' = [op |-> "can_process", a |-> pending, b |-> 0,
                                        before |-> token_tracker, ret |-> ok,
                                        raised |-> FALSE]
                    /\ admitted' = IF ok THEN "yes" ELSE "no"
                    /\ response' = IF ok THEN response ELSE BudgetErrorResult
                    /\ pc' = IF ok THEN "CallModel" ELSE "PostBudgetError"
                    /\ UNCHANGED exitVars
    /\ UNCHANGED <<configVars, token_tracker, filterVars, promptVars, api_response,
                   api_calls, record_calls, githubVars, console>>

ReviewTexts == {<<"LGTM">>, <<"Improve", "Error", "handling">>}
ProviderUsages == {<<2, 1>>, <<MAX_TOKENS - 3, 3>>, <<MAX_TOKENS + MaxSlack, 3>>}
ProviderReplies ==
    {[outcome |-> "raise", text |-> <<>>, input_tokens |-> 0, output_tokens |-> 0]}
    \cup {[outcome |-> "ok", text |-> t, input_tokens |-> u[1], output_tokens |-> u[2]] :
              t \in ReviewTexts, u \in ProviderUsages}
    \cup {[outcome |-> "empty", text |-> <<>>, input_tokens |-> u[1],
           output_tokens |-> u[2]] : u \in ProviderUsages}

\* Mutants of CallModel: a failed call is issued again; the exception of a
\* failed call is not caught in call_anthropic_api.
CallModel_retry ==
    /\ pc = "CallModel"
    /\ trace' = Append(trace, "CallModel")
    /\ api_calls' = api_calls + 1
    /\ \E reply \in ProviderReplies :
           /\ api_response' = reply
           /\ response' = response
           /\ pc' = IF reply.outcome = "raise" THEN "CallModel" ELSE "RecordUsage"
    /\ UNCHANGED <<configVars, token_tracker, tracker_call, filterVars, promptVars,
                   admitted, record_calls, githubVars, console, exitVars>>

CallModel_propagates ==
    /\ pc = "CallModel"
    /\ trace' = Append(trace, "CallModel")
    /\ api_calls' = api_calls + 1
    /\ \E reply \in ProviderReplies :
           /\ api_response' = reply
           /\ response' = response
           /\ IF reply.outcome = "raise"
              THEN Fault
              ELSE pc' = "RecordUsage" /\ UNCHANGED exitVars
    /\ UNCHANGED <<configVars, token_tracker, tracker_call, filterVars, promptVars,
                   admitted, record_calls, githubVars, console>>

\* client.messages.create: it raises, or returns a message whose content list
\* holds a text block ("ok") or nothing ("empty")
CallModel ==
    /\ pc = "CallModel"
    /\ trace' = Append(trace, "CallModel")
    /\ api_calls' = api_calls + 1
    /\ \E reply \in ProviderReplies :
           /\ api_response' = reply
           /\ IF reply.outcome = "raise"
              THEN response' = ApiErrorResult /\ pc' = "RouteResult"
              ELSE response' = response /\ pc' = "RecordUsage"
    /\ UNCHANGED <<configVars, token_tracker, tracker_call, filterVars, promptVars,
                   admitted, record_calls, githubVars, console, exitVars>>

\* Mutant of ReportedUsage: the pre-flight estimate is recorded instead.
ReportedUsage_estimate(reply) ==
    <<WordCount(prompt), MAX_TOKENS>>

\* response.usage.input_tokens, response.usage.output_tokens
ReportedUsage(reply) == <<reply.input_tokens, reply.output_tokens>>

\* record_usage with the reported counts, then the result dict; an exception of
\* either (ZeroDivisionError, IndexError on an empty content list) lands in the
\* except clause
RecordUsage ==
    /\ pc = "RecordUsage"
    /\ trace' = Append(trace, "RecordUsage")
    /\ LET p == ReportedUsage(api_response)[1]
           c == ReportedUsage(api_response)[2]
           ret == record_usage_ret(token_tracker, p, c)
       IN  /\ token_tracker' = record_usage(token_tracker, p, c)
           /\ record_calls' = record_calls + 1
           /\ tracker_call' = [op |-> "record_usage", a |-> p, b |-> c,
                               before |-> token_tracker, ret |-> ret.value,
                               raised |-> ret.raised]
           /\ response' = IF ret.raised \/ api_response.outcome = "empty"
                          THEN ApiErrorResult
                          ELSE [content |-> api_response.text, prompt_tokens |-> p,
                                completion_tokens |-> c]
    /\ pc' = "RouteResult"
    /\ UNCHANGED <<configVars, filterVars, promptVars, api_response, admitted,
                   api_calls, githubVars, console, exitVars>>

\* ------------------------------------------------------------- routing
Choices == {"y", "YES", "n", ""}

\* Mutant of Route: the test entry point posts without looking at the answer.
Route_unconfirmed ==
    /\ IF mode = "live"
       THEN IF ContainsError(response.content)
            THEN /\ console' = Append(console, response.content)
                 /\ PostComment(ERROR_HEADING \o response.content)
                 /\ UNCHANGED choice
            ELSE /\ PostComment(response.content)
                 /\ UNCHANGED <<choice, console>>
       ELSE /\ console' = Append(console, response.content)
            /\ IF post_flag
               THEN \E typed \in Choices :
                        /\ choice' = typed
                        /\ PostComment(response.content)
               ELSE UNCHANGED githubVars
    /\ pc' = "End"
    /\ exit_code' = "0"
    /\ UNCHANGED <<configVars, token_tracker, tracker_call, filterVars, promptVars,
                   modelVars, abort_kind>>

\* live: the comment, under the error heading when the content holds "error";
\* test: the console, then the comment if --post was given and confirmed
Route ==
    /\ IF mode = "live"
       THEN IF ContainsError(response.content)
            THEN /\ console' = Append(console, response.content)
                 /\ PostComment(ERROR_HEADING \o response.content)
                 /\ UNCHANGED choice
            ELSE /\ PostComment(response.content)
                 /\ UNCHANGED <<choice, console>>
       ELSE /\ console' = Append(console, response.content)
            /\ IF post_flag
               THEN \E typed \in Choices :
                        /\ choice' = typed
                        /\ IF Lower(typed) \in {"y", "yes"}
                           THEN PostComment(response.content)
                           ELSE UNCHANGED <<github_calls, post_attempts, comments,
                                            swallowed>>
               ELSE UNCHANGED githubVars
    /\ pc' = "End"
    /\ exit_code' = "0"
    /\ UNCHANGED <<configVars, token_tracker, tracker_call, filterVars, promptVars,
                   modelVars, abort_kind>>

PostBudgetError ==
    /\ pc = "PostBudgetError"
    /\ trace' = Append(trace, "PostBudgetError")
    /\ Route

RouteResult ==
    /\ pc = "RouteResult"
    /\ trace' = Append(trace, "RouteResult")
    /\ Route

Next ==
    \/ Start
    \/ FetchPR
    \/ FilterFiles
    \/ PostEmptyNotice
    \/ AssembleContext
    \/ BuildPrompt
    \/ CheckBudget
    \/ PostBudgetError
    \/ CallModel
    \/ RecordUsage
    \/ RouteResult

Spec == RunInit /\ [][Next]_vars

\* ---------------------------------------- gather_project_context on its own
\* The context stage run against every set of memory-bank documents.
MemoryBanks == SUBSET {context_files[i] : i \in DOMAIN context_files}

GatherInit ==
    /\ Blank
    /\ mode \in {"live", "test"}
    /\ post_flag = FALSE
    /\ memory_bank \in MemoryBanks
    /\ pc = "AssembleContext"
    /\ token_tracker = TokenUsageTracker(DEFAULT_BUDGET)
    /\ file_filter = FileFilterConfig(<<>>, <<>>)
    /\ files_changed = <<>>

GatherNext == AssembleContext

GatherSpec == GatherInit /\ [][GatherNext]_vars

\* ------------------------------------------------- str.format on its own
\* The prompt stage run against drawn titles, descriptions and contexts; the
\* text of a pull request is its author's and may hold braces.
PrTitles == {PR_TITLE, <<"Use", "{pr_title}">>}
PrDescriptions == {PR_DESCRIPTION, <<"see", "{author}">>, <<"Fixes", "parsing">>}
Contexts == {gather_project_context(bank) : bank \in DocSets}
RelevantLists == {<<FileChange(A_PY)>>, <<FileChange(A_PY), FileChange(C_MD)>>}

RenderInit ==
    /\ trace = <<>>
    /\ env = NoEnv
    /\ prompt_template = <<>>
    /\ choice = UNASKED
    /\ prompt = <<>>
    /\ api_response = NoReply
    /\ response = NoResponse
    /\ tracker_call = NoTrackerCall
    /\ filter_call = NoFilterCall
    /\ admitted = "none"
    /\ api_calls = 0
    /\ record_calls = 0
    /\ github_calls = 0
    /\ post_attempts = <<>>
    /\ comments = <<>>
    /\ console = <<>>
    /\ swallowed = {}
    /\ abort_kind = "none"
    /\ exit_code = "running"
    /\ mode \in {"live", "test"}
    /\ post_flag = FALSE
    /\ memory_bank = {}
    /\ pc = "BuildPrompt"
    /\ token_tracker = TokenUsageTracker(DEFAULT_BUDGET)
    /\ file_filter = FileFilterConfig(<<>>, <<>>)
    /\ \E title \in PrTitles, description \in PrDescriptions :
           pr_details = [title |-> title, description |-> description]
    /\ project_context \in Contexts
    /\ relevant_files \in RelevantLists
    /\ files_changed = relevant_files

RenderNext == BuildPrompt

RenderSpec == RenderInit /\ [][RenderNext]_vars

\* ------------------------------------- call_anthropic_api, called repeatedly
\* One tracker handed to call_anthropic_api again and again, each call going
\* through the budget check, the provider call and record_usage.
Prompts == {<<>>, <<"Review">>, <<"Review", "Fix">>}

CallsInit ==
    /\ Blank
    /\ mode = "live"
    /\ post_flag = FALSE
    /\ memory_bank = {}
    /\ pc = "CheckBudget"
    /\ token_tracker \in {TokenUsageTracker(budget) : budget \in BudgetEnv}
    /\ file_filter = FileFilterConfig(<<>>, <<>>)
    /\ files_changed = <<>>

\* call_anthropic_api has returned its dict; the caller calls it again
NextCall ==
    /\ pc \in {"RouteResult", "PostBudgetError"}
    /\ Cardinality({i \in DOMAIN trace : trace[i] = "CheckBudget"}) < MaxCalls
    /\ pc' = "CheckBudget"
    /\ prompt' \in Prompts
    /\ UNCHANGED <<configVars, trace, token_tracker, tracker_call, filterVars,
                   pr_details, prompt_template, project_context, modelVars,
                   githubVars, console, exitVars>>

CallsNext == CheckBudget \/ CallModel \/ RecordUsage \/ NextCall

CallsSpec == CallsInit /\ [][CallsNext]_vars

\* =================================================================== claims
\* What the specification calls a match, stated on the two pattern lists.
MatchesBlacklist(P, C) ==
    \E i \in DOMAIN C.blacklist_patterns : fnmatch(P, C.blacklist_patterns[i])

MatchesWhitelist(P, C) ==
    \E i \in DOMAIN C.whitelist_patterns : fnmatch(P, C.whitelist_patterns[i])

\* C5: a path that matches any blacklist pattern is never reviewed, whatever
\* the whitelist contains.
C5_BlacklistPrecedence ==
    (filter_call.op = "should_review_file"
        /\ MatchesBlacklist(filter_call.filename, file_filter))
    => filter_call.ret = FALSE

\* C5 witness: a path matching both a blacklist and a whitelist pattern was decided.
C5_Witness ==
    /\ filter_call.op = "should_review_file"
    /\ MatchesBlacklist(filter_call.filename, file_filter)
    /\ MatchesWhitelist(filter_call.filename, file_filter)
    /\ filter_call.ret = FALSE

\* C6: a path is reviewed exactly when it matches no blacklist pattern and at
\* least one whitelist pattern; matching neither list means not reviewed, and an
\* empty whitelist reviews nothing.
C6_DefaultDeny ==
    filter_call.op = "should_review_file"
    => /\ filter_call.ret
            <=> (~MatchesBlacklist(filter_call.filename, file_filter)
                 /\ MatchesWhitelist(filter_call.filename, file_filter))
       /\ (~MatchesBlacklist(filter_call.filename, file_filter)
           /\ ~MatchesWhitelist(filter_call.filename, file_filter))
          => filter_call.ret = FALSE
       /\ file_filter.whitelist_patterns = <<>> => filter_call.ret = FALSE

\* C6 witness: a path matching neither of two non-empty lists was decided.
C6_Witness ==
    /\ filter_call.op = "should_review_file"
    /\ file_filter.whitelist_patterns # <<>>
    /\ file_filter.blacklist_patterns # <<>>
    /\ ~MatchesBlacklist(filter_call.filename, file_filter)
    /\ ~MatchesWhitelist(filter_call.filename, file_filter)
    /\ filter_call.ret = FALSE

Reviewable(file) ==
    /\ ~MatchesBlacklist(file.filename, file_filter)
    /\ MatchesWhitelist(file.filename, file_filter)

ScenarioA ==
    /\ file_filter = [whitelist_patterns |-> <<P_PY>>, blacklist_patterns |-> <<P_TESTS>>]
    /\ files_changed = <<FileChange(A_PY), FileChange(TESTS_B_PY), FileChange(C_MD)>>

\* C7: filter returns exactly the reviewable entries of its input in their
\* original order, each decided on its own; scenario A yields [a.py].
C7_FilterOrderedSelection ==
    filter_call.op = "filter_relevant_files"
    => /\ relevant_files = SelectSeq(files_changed, Reviewable)
       /\ Len(relevant_files) <= Len(files_changed)
       /\ ScenarioA => relevant_files = <<FileChange(A_PY)>>

\* C7 witness: scenario A was filtered down to a.py.
C7_Witness ==
    /\ filter_call.op = "filter_relevant_files"
    /\ ScenarioA
    /\ relevant_files = <<FileChange(A_PY)>>

\* C2: can_process(e) is true exactly when consumed + e <= limit (e in tenths
\* of a token: e <= 10 * (limit - consumed)), and it leaves the tracker as it was.
C2_CanProcessPure ==
    tracker_call.op = "can_process"
    => /\ tracker_call.ret
            <=> (tracker_call.a
                   <= 10 * (tracker_call.before.budget_limit
                            - tracker_call.before.current_usage))
       /\ token_tracker = tracker_call.before

\* C2 witness: an estimate that fills the remaining budget exactly was admitted
\* by a tracker that had already consumed tokens.
C2_Witness ==
    /\ tracker_call.op = "can_process"
    /\ tracker_call.before.current_usage > 0
    /\ tracker_call.a > 0
    /\ tracker_call.before.current_usage * 10 + tracker_call.a
           = tracker_call.before.budget_limit * 10
    /\ tracker_call.ret = TRUE

C3_RecordUsageStep ==
    tracker_call.op = "record_usage"
    => /\ token_tracker.current_usage
            = tracker_call.before.current_usage + tracker_call.a + tracker_call.b
       /\ token_tracker.current_usage >= tracker_call.before.current_usage
       /\ token_tracker.budget_limit = tracker_call.before.budget_limit
       /\ tracker_call.before.budget_limit # 0
            => (~tracker_call.raised /\ tracker_call.ret = token_tracker.current_usage)

\* C3: record_usage adds exactly prompt_tokens + completion_tokens to consumed
\* and returns the new total (for the positive limits of a BudgetState);
\* consumed starts at 0 and no step ever decreases it.
C3_RecordUsageMonotone ==
    /\ token_tracker.current_usage = 0
    /\ []C3_RecordUsageStep
    /\ [][token_tracker'.current_usage >= token_tracker.current_usage]_vars

\* C3 witness: a second record_usage with both counts positive.
C3_Witness ==
    /\ tracker_call.op = "record_usage"
    /\ tracker_call.before.current_usage > 0
    /\ tracker_call.a > 0 /\ tracker_call.b > 0
    /\ tracker_call.before.budget_limit > 0
    /\ tracker_call.ret = tracker_call.before.current_usage + tracker_call.a + tracker_call.b

\* ------------------------------------------------------- claims on the run
Range(q) == {q[i] : i \in DOMAIN q}

Last(q) == q[Len(q)]

IsPrefix(t, q) == Len(t) <= Len(q) /\ SubSeq(q, 1, Len(t)) = t

\* succeeded of a ReviewResult, as main reads it off the content
Succeeded(result) == ~ContainsError(result.content)

\* C1: a call rejected by the budget check makes no provider call and does not
\* raise; it yields the error-shaped result (not succeeded, zero token counts),
\* which is routed as the budget-exceeded notice. limit 1000, consumed 900,
\* estimate 150 is rejected.
C1_RejectedCallNotIssued ==
    /\ ~can_process([budget_limit |-> 1000, current_usage |-> 900], 1500)
    /\ admitted = "no"
       => /\ api_calls = 0
          /\ record_calls = 0
          /\ abort_kind = "none" /\ exit_code # "1"
          /\ response.content = BUDGET_ERROR
          /\ response.prompt_tokens = 0 /\ response.completion_tokens = 0
          /\ ~Succeeded(response)
          /\ pc \in {"PostBudgetError", "End"}
          /\ pc = "End"
             => /\ exit_code = "0"
                /\ mode = "live" => post_attempts = <<ERROR_HEADING \o BUDGET_ERROR>>
                /\ mode = "test" => /\ console = <<BUDGET_ERROR>>
                                    /\ post_attempts \in {<<>>, <<BUDGET_ERROR>>}

\* C1 witness: a live run ended with the budget notice posted and no provider call.
C1_Witness ==
    /\ admitted = "no"
    /\ pc = "End"
    /\ mode = "live"
    /\ comments = <<ERROR_HEADING \o BUDGET_ERROR>>
    /\ api_calls = 0

C4_RecordingInvariant ==
    /\ record_calls <= 1
    /\ record_calls <= api_calls
    /\ admitted # "yes" => record_calls = 0
    /\ api_response.outcome \in {"none", "raise"} => record_calls = 0
    /\ record_calls = 0 => token_tracker.current_usage = 0

C4_RecordingStep ==
    (token_tracker'.current_usage # token_tracker.current_usage
        \/ record_calls' # record_calls)
    => /\ pc = "RecordUsage"
       /\ record_calls' = record_calls + 1
       /\ api_calls = 1
       /\ admitted = "yes"
       /\ api_response.outcome \in {"ok", "empty"}
       /\ token_tracker'.current_usage
            = token_tracker.current_usage
              + api_response.input_tokens + api_response.output_tokens

\* C4: consumed changes only in record_usage, which runs at most once per
\* completed provider call, after the call returned and with the counts the
\* provider reported, never for a rejected or a failed call.
C4_RecordOnlyAfterCompletedCall ==
    []C4_RecordingInvariant /\ [][C4_RecordingStep]_vars

\* C4 witness: a run ended after one completed call whose reported usage was
\* recorded.
C4_Witness ==
    /\ pc = "End"
    /\ record_calls = 1
    /\ api_response.outcome = "ok"
    /\ token_tracker.current_usage
         = api_response.input_tokens + api_response.output_tokens
    /\ token_tracker.current_usage > 0

NoFilesRun ==
    /\ pc = "End"
    /\ "FilterFiles" \in Range(trace)
    /\ relevant_files = <<>>

NoUpstreamWork ==
    /\ api_calls = 0
    /\ prompt = <<>> /\ project_context = <<>>
    /\ tracker_call.op = "none"
    /\ Range(trace) \cap {"AssembleContext", "BuildPrompt", "CheckBudget", "CallModel"} = {}

Upstream == <<"Start", "FetchPR", "FilterFiles">>
ToBudget == Upstream \o <<"AssembleContext", "BuildPrompt", "CheckBudget">>

EmptyPath == Upstream \o <<"PostEmptyNotice">>
RejectedPath == ToBudget \o <<"PostBudgetError">>
AdmittedPath == ToBudget \o <<"CallModel", "RecordUsage", "RouteResult">>
FailedCallPath == ToBudget \o <<"CallModel", "RouteResult">>

StatedPaths == {EmptyPath, RejectedPath, AdmittedPath}

\* C9 as stated: every run follows one of the three stated stage sequences (an
\* aborted run a prefix of one), and RouteResult on the admitted path comes
\* only after RecordUsage.
C9_Original ==
    /\ \E q \in StatedPaths : IsPrefix(trace, q)
    /\ (pc = "End" /\ exit_code = "0") => trace \in StatedPaths

\* C9 amended: as stated, except that the test entry point ends right after
\* FilterFiles when no file is relevant, and that a provider call that raised
\* goes from CallModel to RouteResult without RecordUsage; a run aborted by a
\* fault stops on a prefix. No stage is visited twice, CallModel only after the
\* budget check admitted the call, RecordUsage only after the call returned.
C9_StageOrder ==
    /\ \E q \in StatedPaths \cup {FailedCallPath} : IsPrefix(trace, q)
    /\ \A i, j \in DOMAIN trace : trace[i] = trace[j] => i = j
    /\ "CallModel" \in Range(trace) => admitted = "yes"
    /\ "PostBudgetError" \in Range(trace) => admitted = "no"
    /\ "RecordUsage" \in Range(trace) => api_response.outcome \in {"ok", "empty"}
    /\ IsPrefix(FailedCallPath, trace) => api_response.outcome = "raise"
    /\ "PostEmptyNotice" \in Range(trace) => mode = "live"
    /\ (pc = "End" /\ exit_code = "0")
       => \/ trace \in StatedPaths \cup {FailedCallPath}
          \/ trace = Upstream /\ mode = "test" /\ relevant_files = <<>>
    /\ (pc = "End" /\ exit_code = "1") => abort_kind # "none"

\* C9 witness: an admitted run went through CallModel, RecordUsage, RouteResult.
C9_Witness ==
    /\ pc = "End"
    /\ trace = AdmittedPath
    /\ exit_code = "0"

\* C10: a provider call that raises is turned into the error-shaped result
\* (error text, zero token counts) inside call_anthropic_api; nothing is
\* propagated, consumed stays as it was, and the run goes on to RouteResult.
C10_ProviderFailureCaught ==
    api_response.outcome = "raise"
    => /\ response.content = API_ERROR
       /\ ContainsError(response.content)
       /\ response.prompt_tokens = 0 /\ response.completion_tokens = 0
       /\ abort_kind = "none" /\ exit_code # "1"
       /\ token_tracker.current_usage = tracker_call.before.current_usage
       /\ token_tracker.current_usage = 0
       /\ record_calls = 0
       /\ pc \in {"RouteResult", "End"}
       /\ pc = "End" => Last(trace) = "RouteResult" /\ exit_code = "0"

\* C10 witness: a live run whose provider call raised ended with the error
\* comment posted.
C10_Witness ==
    /\ api_response.outcome = "raise"
    /\ pc = "End"
    /\ mode = "live"
    /\ comments = <<ERROR_HEADING \o API_ERROR>>

\* ------------------------------------------------------------------- C11
\* load_prompt_template found no file and called sys.exit(1)
TemplateNotFound ==
    pc = "End" /\ abort_kind = "sys.exit" /\ Last(trace) = "BuildPrompt"

\* C11: when the template of the requested scope and version is absent the run
\* aborts with a non-zero exit status before any network call has been made,
\* and neither a model call nor a comment post happens.
C11_TemplateNotFoundBeforeNetwork ==
    TemplateNotFound =>
        /\ exit_code = "1"
        /\ github_calls = 0
        /\ api_calls = 0
        /\ post_attempts = <<>>

\* ------------------------------------------------------------------- C12
\* a required environment value was absent: GITHUB_TOKEN at the start of main
\* (where the test entry point also rejects a bad PR identifier), or
\* ANTHROPIC_API_KEY inside call_anthropic_api
ConfigMissing ==
    pc = "End" /\ abort_kind = "sys.exit" /\ Last(trace) \in {"Start", "CheckBudget"}

\* C12: when the source-control token or the model-provider API key is absent
\* the run aborts with a non-zero exit status before any network call to either
\* collaborator has been made.
C12_ConfigMissingBeforeNetwork ==
    ConfigMissing =>
        /\ exit_code = "1"
        /\ github_calls = 0
        /\ api_calls = 0

\* ------------------------------------------------------------------- C13
\* the filter configuration entry point m builds from the environment of this run
ConfigOf(m) ==
    FileFilterConfig(EnvGet(env.whitelist, WhitelistDefault(m)),
                     EnvGet(env.blacklist, BlacklistDefault(m)))

\* C13: the two entry points differ only at RouteResult. From the same
\* environment and pull request either one keeps the same files, and a run
\* that is left with no relevant file takes the same terminal path in both.
C13_ModesShareUpstream ==
    /\ "FilterFiles" \in Range(trace) =>
           \A m \in {"live", "test"} :
               relevant_files = filter_relevant_files(files_changed, ConfigOf(m))
    /\ NoFilesRun => trace = EmptyPath

\* ------------------------------------------------------------------- C14
\* a stage of the run raised: logged and ignored where it arose, or escaped
\* the stage
StageFaulted == swallowed # {} \/ abort_kind \in {"caught", "uncaught"}

\* C14: a fault raised at any stage ends the run with a non-zero exit status,
\* in the live entry point through the except clause of main; no run in which
\* a stage faulted ends with exit status 0.
C14_NoFaultSwallowed ==
    (pc = "End" /\ StageFaulted /\ "FetchPR" \in Range(trace)) =>
        /\ exit_code = "1"
        /\ mode = "live" => abort_kind = "caught"

\* ------------------------------------------------------------------- C15
\* --post was given and the question was answered y or yes (in any case)
ConfirmedPost == post_flag /\ choice \in {"y", "Y", "yes", "YES", "Yes"}

\* C15: the test entry point hands a comment to the pull request only when
\* --post was given and the confirmation was answered y or yes; it asks only
\* when --post was given, and what it posts is the one result it printed.
C15_PostOnlyWhenConfirmed ==
    mode = "test" =>
        /\ post_attempts # <<>> => ConfirmedPost
        /\ ~ConfirmedPost => post_attempts = <<>> /\ comments = <<>>
        /\ choice # UNASKED => post_flag
        /\ post_attempts \in {<<>>, <<response.content>>}

C15_Witness ==
    /\ mode = "test" /\ pc = "End"
    /\ post_flag /\ choice = "YES"
    /\ post_attempts = <<response.content>>
    /\ comments = post_attempts

\* ------------------------------------------------------------------- C16
\* header with the filename, the document's content, a blank line
Block(filename) == <<"##", filename, NL>> \o DocContent(filename) \o <<NL, NL>>

RECURSIVE Concat(_)
Concat(blocks) == IF blocks = <<>> THEN <<>> ELSE Head(blocks) \o Concat(Tail(blocks))

\* the existing documents, in priority order
Present == SelectSeq(context_files, LAMBDA d : d \in memory_bank)

\* C16: the gathered context is one block per existing document, in the fixed
\* priority order, and nothing for a missing one; with no document it is
\* empty, and the run goes on to the prompt. With projectbrief.md alone it is
\* exactly that one block.
C16_GatherOrderedBlocks ==
    pc = "BuildPrompt" =>
        /\ project_context = Concat([i \in 1..Len(Present) |-> Block(Present[i])])
        /\ memory_bank = {} => project_context = <<>>
        /\ memory_bank = {"projectbrief.md"} =>
               project_context = <<"##", "projectbrief.md", NL, "notes", "of",
                                   "projectbrief.md", NL, NL>>
        /\ exit_code = "running" /\ abort_kind = "none"

C16_Witness ==
    /\ pc = "BuildPrompt"
    /\ memory_bank = {"productContext.md", "progress.md"}
    /\ project_context = Block("productContext.md") \o Block("progress.md")

\* ------------------------------------------------------------------- C17
FourFields == {"project_context", "pr_title", "pr_description", "files_changed"}

\* the placeholders a template references
FieldsOf(template) == {template[i].text : i \in {j \in DOMAIN template : template[j].field}}

\* words that read as a placeholder left in a text
IsMarker(w) ==
    w \in {"{project_context}", "{pr_title}", "{pr_description}", "{files_changed}",
           "{author}"}

\* the values handed to str.format in this state
Values ==
    [project_context |-> project_context, pr_title |-> pr_details.title,
     pr_description |-> pr_details.description,
     files_changed |-> format_files_changed_summary(relevant_files)]

Rendered == "BuildPrompt" \in Range(trace) /\ prompt_template # <<>>

\* a template with a placeholder outside the four fails and ends the run
\* before any model call
MalformedAborts ==
    (Rendered /\ ~(FieldsOf(prompt_template) \subseteq FourFields)) =>
        /\ pc = "End" /\ exit_code = "1"
        /\ abort_kind \in {"caught", "uncaught"}
        /\ prompt = <<>> /\ api_calls = 0

\* C17 as stated: a template with a placeholder outside the four fields fails
\* and ends the run before any model call, and the rendering of a template
\* with all four fields holds no placeholder marker, whatever the values hold.
C17_Original ==
    /\ MalformedAborts
    /\ (pc = "CheckBudget" /\ FieldsOf(prompt_template) = FourFields) =>
           \A i \in DOMAIN prompt : ~IsMarker(prompt[i])

\* C17: a template with a placeholder outside the four fields fails and ends
\* the run before any model call. A successful rendering is the template with
\* every placeholder replaced by its value, copied as it is: the only markers
\* in the output are those the values themselves hold.
C17_RenderSubstitutesFields ==
    /\ MalformedAborts
    /\ pc = "CheckBudget" =>
           /\ FieldsOf(prompt_template) \subseteq FourFields
           /\ prompt = Concat([i \in DOMAIN prompt_template |->
                                  IF prompt_template[i].field
                                  THEN Values[prompt_template[i].text]
                                  ELSE <<prompt_template[i].text>>])
           /\ prompt_template = T_FULL =>
                  prompt = <<"Review">> \o project_context \o pr_details.title
                           \o pr_details.description
                           \o format_files_changed_summary(relevant_files)
           /\ \A i \in DOMAIN prompt :
                  IsMarker(prompt[i]) =>
                      \E f \in FieldsOf(prompt_template) : prompt[i] \in Range(Values[f])

C17_Witness ==
    /\ pc = "CheckBudget"
    /\ prompt_template = T_FULL
    /\ pr_details.description = <<"see", "{author}">>
    /\ "{author}" \in Range(prompt)

\* ------------------------------------------------------------------- C18
\* a pattern without its leading and trailing blanks
RECURSIVE Trim(_)
Trim(s) ==
    IF s = <<>> THEN s
    ELSE IF Head(s) = " " THEN Trim(Tail(s))
    ELSE IF s[Len(s)] = " " THEN Trim(SubSeq(s, 1, Len(s) - 1))
    ELSE s

SplitTrimmed(s) == [i \in DOMAIN split(s, ",") |-> Trim(split(s, ",")[i])]

\* the pattern strings the entry point handed to FileFilterConfig
WhitelistString == EnvGet(env.whitelist, WhitelistDefault(mode))
BlacklistString == EnvGet(env.blacklist, BlacklistDefault(mode))

ConfigBuilt ==
    "Start" \in Range(trace) /\ ~(abort_kind = "uncaught" /\ Last(trace) = "Start")

\* C18: the filter configuration holds each comma-separated pattern with the
\* surrounding blanks removed; an empty whitelist string gives the single
\* pattern * and an empty blacklist string gives no pattern.
C18_SplitAndTrim ==
    ConfigBuilt =>
        /\ file_filter.whitelist_patterns =
               (IF WhitelistString = <<>> THEN <<Star>> ELSE SplitTrimmed(WhitelistString))
        /\ file_filter.blacklist_patterns =
               (IF BlacklistString = <<>> THEN <<>> ELSE SplitTrimmed(BlacklistString))

\* ------------------------------------------------------------------- C19
WithinLimit(tracker) == tracker.current_usage <= tracker.budget_limit

\* the pending reply reports no more than the estimate its call was admitted with
ReportedWithinEstimate ==
    /\ tracker_call.op = "can_process" /\ tracker_call.ret
    /\ tracker_call.before = token_tracker
    /\ (api_response.input_tokens + api_response.output_tokens) * 10 <= tracker_call.a

LiveRouted ==
    mode = "live" /\ pc = "End" /\ Last(trace) \in {"RouteResult", "PostBudgetError"}

\* the model call was admitted, returned a text and had its usage recorded
CallSucceeded ==
    admitted = "yes" /\ api_response.outcome = "ok" /\ ~tracker_call.raised

\* C20: the live entry point posts under the GooseBot Error heading exactly
\* when the model call did not succeed; the text of a successful call is posted
\* as it is, whatever words it holds.
C20_ErrorHeadingIffFailed ==
    LiveRouted =>
        /\ Len(post_attempts) = 1
        /\ IsPrefix(ERROR_HEADING, post_attempts[1]) <=> ~CallSucceeded
        /\ CallSucceeded => post_attempts[1] = api_response.text

\* ------------------------------------------------------------------- C21
\* C21: a run of either entry point issues at most one model-provider call and
\* hands at most one comment to the pull request, on every path: with no
\* relevant file or a rejected budget check there is no provider call at all,
\* and the one comment is never sent twice.
C21_AtMostOneCallOnePost ==
    /\ api_calls <= 1
    /\ Len(post_attempts) <= 1
    /\ Len(comments) <= 1
    /\ record_calls <= api_calls
    /\ (NoFilesRun \/ admitted = "no") => api_calls = 0
    /\ "PostEmptyNotice" \in Range(trace) => post_attempts = <<EMPTY_NOTICE>>

C21_Witness ==
    /\ pc = "End" /\ mode = "live"
    /\ Last(trace) = "RouteResult"
    /\ api_response.outcome = "ok"
    /\ api_calls = 1
    /\ Len(post_attempts) = 1
    /\ comments = post_attempts

====
